---- MODULE Spec2Model ----
(***************************************************************************)
(* A model of siesta's binary reader: src/binary.py (byte sources),        *)
(* src/format.py (field descriptors), src/field_data.py (result nodes)     *)
(* and src/reader.py (the Reader engine).                                  *)
(*                                                                         *)
(* The Reader is recursive (a Nested Block is read by a sub-Reader over a  *)
(* BinaryBlock view); the recursion is modelled by an explicit stack of    *)
(* frames, one frame per active read_binary/__consume_struct call, and one *)
(* action per iteration of the loop of __consume_struct.                   *)
(***************************************************************************)
EXTENDS Integers, Sequences, FiniteSets, TLC

(***************************************************************************)
(* Bounds of the input domain.                                             *)
(***************************************************************************)
\* largest size of the root binary (the file), in bytes
MaxSize == 2
\* number of read_binary calls made on the one top-level Reader
\* sources of the string reader span up to MaxChunks chunks (and a byte)
MaxChunks == 2
MaxReads == 2

(***************************************************************************)
(* Python's None, for the optional start / name of a descriptor.           *)
(***************************************************************************)
NoStart == -1
NoName == ""

\* A preprocessor (Callable[[bytes], bytes] | None) is the chain of the
\* primitive transforms it applies, first to last; None is the empty chain.
NoFunc == <<>>

(***************************************************************************)
(* Sequence helpers.                                                       *)
(***************************************************************************)
Min(a, b) == IF a < b THEN a ELSE b
Max(a, b) == IF a > b THEN a ELSE b

\* Python's bs[a:b] for 0 <= a, on a 1-based TLA+ sequence
Slice(s, a, b) ==
  IF Min(b, Len(s)) <= a THEN <<>> ELSE SubSeq(s, a + 1, Min(b, Len(s)))

Reverse(s) == [i \in 1..Len(s) |-> s[Len(s) + 1 - i]]

RECURSIVE Pow256(_)
Pow256(n) == IF n = 0 THEN 1 ELSE 256 * Pow256(n - 1)

(***************************************************************************)
(* src/binary.py                                                           *)
(***************************************************************************)
\* The primitive transforms a caller may pass as `func`: "flip" is
\* lambda bs: bytes(b ^ 1 for b in bs) (scratch.py uses b ^ 0x73), "inc" is
\* lambda bs: bytes((b + 1) % 256 for b in bs).
ApplyPrim(p, bs) ==
  IF p = "flip" THEN [i \in 1..Len(bs) |-> IF bs[i] % 2 = 0 THEN bs[i] + 1 ELSE bs[i] - 1]
  ELSE IF p = "inc" THEN [i \in 1..Len(bs) |-> (bs[i] + 1) % 256]
  ELSE bs

RECURSIVE ApplyFunc(_, _)
ApplyFunc(func, bs) ==
  IF func = NoFunc THEN bs ELSE ApplyFunc(Tail(func), ApplyPrim(Head(func), bs))

\* BinaryFile.get_bytes: seek(start), read(length), then func
FileGetBytes(data, start, length, func) ==
  ApplyFunc(func, Slice(data, start, start + length))

\* BinaryFile.get_size
FileGetSize(data) == Len(data)

\* BinaryBlock.__init__: a view is the chain of (offset, length) blocks
\* from the outermost block (first) to the innermost (last) over the file.
BinaryBlock(underlying, offset, length) ==
  Append(underlying, [offset |-> offset, length |-> length])

\* BinaryBlock.get_bytes: forwards to the underlying binary at start + offset
RECURSIVE GetBytes(_, _, _, _, _)
GetBytes(data, bin, start, length, func) ==
  IF bin = <<>> THEN FileGetBytes(data, start, length, func)
  ELSE GetBytes(data, SubSeq(bin, 1, Len(bin) - 1),
                start + bin[Len(bin)].offset, length, func)

\* BinaryBlock.get_size / BinaryFile.get_size
GetSize(data, bin) ==
  IF bin = <<>> THEN FileGetSize(data) ELSE bin[Len(bin)].length

\* int.from_bytes(bs, endianness, signed=...)
RECURSIVE BigEndianValue(_)
BigEndianValue(bs) ==
  IF bs = <<>> THEN 0
  ELSE BigEndianValue(SubSeq(bs, 1, Len(bs) - 1)) * 256 + bs[Len(bs)]

FromBytes(bs, endianness, signed) ==
  LET u == BigEndianValue(IF endianness = "little" THEN Reverse(bs) ELSE bs)
  IN IF signed /\ Len(bs) > 0 /\ 2 * u >= Pow256(Len(bs))
       THEN u - Pow256(Len(bs)) ELSE u

\* Binary.get_i64 .. Binary.get_u8
get_int(data, endianness, bin, loc, nbytes, signed, func) ==
  FromBytes(GetBytes(data, bin, loc, nbytes, func), endianness, signed)

(***************************************************************************)
(* src/format.py                                                           *)
(***************************************************************************)
\* length: Optional[int | str] of a NestedBlockField
LenInt(n) == [k |-> "int", i |-> n, s |-> NoName]
LenStr(s) == [k |-> "str", i |-> 0, s |-> s]
LenNone == [k |-> "none", i |-> 0, s |-> NoName]

UnknownField(length, start) ==
  [kind |-> "unknown", start |-> start, bits |-> 0, signed |-> FALSE,
   name |-> NoName, length |-> LenInt(length), sub |-> <<>>, pre |-> NoFunc]

IntField(bits, signed, name, start, func) ==
  [kind |-> "int", start |-> start,
   bits |-> IF bits \in {8, 16, 32, 64} THEN bits ELSE 32,
   signed |-> signed, name |-> name, length |-> LenNone, sub |-> <<>>,
   pre |-> func]

NestedBlockField(start, length, name, subfields, func) ==
  [kind |-> "nested", start |-> start, bits |-> 0, signed |-> FALSE,
   name |-> name, length |-> length, sub |-> subfields, pre |-> func]

StructField(start, length, name, fields, func) ==
  [kind |-> "struct", start |-> start, bits |-> 0, signed |-> FALSE,
   name |-> name, length |-> length, sub |-> fields, pre |-> func]

\* Field.get_type of each descriptor class
get_type(f) ==
  CASE f.kind = "unknown" -> "unknown"
    [] f.kind = "nested" -> "nested"
    [] f.kind = "struct" -> "struct"
    [] f.kind = "int" ->
         IF f.signed
           THEN CASE f.bits = 8 -> "i8" [] f.bits = 16 -> "i16"
                  [] f.bits = 32 -> "i32" [] OTHER -> "i64"
           ELSE CASE f.bits = 8 -> "u8" [] f.bits = 16 -> "u16"
                  [] f.bits = 32 -> "u32" [] OTHER -> "u64"

\* Field.get_label: the name, or untitled_<type>_field_<hex(loc)>
get_label(f, loc) ==
  IF f.name # NoName
    THEN [named |-> TRUE, name |-> f.name, type |-> "", loc |-> 0]
    ELSE [named |-> FALSE, name |-> NoName, type |-> get_type(f), loc |-> loc]

(***************************************************************************)
(* Values (the `val` of a FieldData, and what Reader.vars binds).          *)
(***************************************************************************)
IntVal(n) == [t |-> "int", i |-> n, b |-> <<>>, l |-> <<>>]
BytesVal(bs) == [t |-> "bytes", i |-> 0, b |-> bs, l |-> <<>>]
ListVal(l) == [t |-> "list", i |-> 0, b |-> <<>>, l |-> l]
NoneVal == [t |-> "none", i |-> 0, b |-> <<>>, l |-> <<>>]

\* src/field_data.py
FieldData(name, type, location, val) ==
  [name |-> name, type |-> type, location |-> location, val |-> val]

\* get_length with a silent default: an unbound or non-int name gives
\* length 0 instead of raising
get_length_lenient(f, read_vars) ==
  IF f.length.k = "str"
    THEN IF f.length.s \in DOMAIN read_vars /\ read_vars[f.length.s].t = "int"
           THEN [ok |-> TRUE, n |-> read_vars[f.length.s].i]
           ELSE [ok |-> TRUE, n |-> 0]
    ELSE IF f.length.k = "int"
      THEN [ok |-> TRUE, n |-> f.length.i]
      ELSE [ok |-> FALSE, n |-> 0]

\* NestedBlockField.get_length: ok = FALSE stands for the raised
\* KeyError / ValueError
get_length(f, read_vars) ==
  IF f.length.k = "str"
    THEN IF f.length.s \in DOMAIN read_vars /\ read_vars[f.length.s].t = "int"
           THEN [ok |-> TRUE, n |-> read_vars[f.length.s].i]
           ELSE [ok |-> FALSE, n |-> 0]
    ELSE IF f.length.k = "int"
      THEN [ok |-> TRUE, n |-> f.length.i]
      ELSE [ok |-> FALSE, n |-> 0]

(***************************************************************************)
(* src/reader.py                                                           *)
(***************************************************************************)
\* a composition that calls the field preprocessor first
compose_field_first(block_preprocessor, field_preprocessor) ==
  field_preprocessor \o block_preprocessor

\* compose(block_preprocessor, field_preprocessor)
compose(block_preprocessor, field_preprocessor) ==
  block_preprocessor \o field_preprocessor

\* self.vars = {} and self.vars[name] = val
EmptyVars == [x \in {} |-> NoneVal]
\* a binding that is made only for a name not bound yet (setdefault)
BindOnce(vs, name, val) ==
  IF name = NoName \/ name \in DOMAIN vs THEN vs
  ELSE [x \in (DOMAIN vs) \cup {name} |-> IF x = name THEN val ELSE vs[x]]

Bind(vs, name, val) ==
  IF name = NoName THEN vs
  ELSE [x \in (DOMAIN vs) \cup {name} |-> IF x = name THEN val ELSE vs[x]]

\* __get_next_field that fills gaps whatever the options say
get_next_field_filling(include_gaps, queue, loc, binary_size) ==
  LET NoField == UnknownField(0, NoStart) IN
  IF loc >= binary_size
    THEN [none |-> TRUE, field |-> NoField, pop |-> FALSE]
  ELSE IF Len(queue) = 0
    THEN [none |-> FALSE, field |-> UnknownField(binary_size - loc, loc),
          pop |-> FALSE]
  ELSE IF queue[1].start # NoStart /\ queue[1].start > loc
    THEN [none |-> FALSE, field |-> UnknownField(queue[1].start - loc, loc),
          pop |-> FALSE]
  ELSE [none |-> FALSE, field |-> queue[1], pop |-> TRUE]

\* __get_next_field that takes the last queued descriptor (queue.pop())
get_next_field_from_end(include_gaps, queue, loc, binary_size) ==
  LET NoField == UnknownField(0, NoStart) IN
  IF loc >= binary_size
    THEN [none |-> TRUE, field |-> NoField, pop |-> FALSE]
  ELSE IF Len(queue) = 0
    THEN IF include_gaps
           THEN [none |-> FALSE, field |-> UnknownField(binary_size - loc, loc),
                 pop |-> FALSE]
           ELSE [none |-> TRUE, field |-> NoField, pop |-> FALSE]
  ELSE IF queue[1].start # NoStart /\ queue[1].start > loc /\ include_gaps
    THEN [none |-> FALSE, field |-> UnknownField(queue[1].start - loc, loc),
          pop |-> FALSE]
  ELSE [none |-> FALSE, field |-> queue[Len(queue)], pop |-> TRUE]

\* Reader.__get_next_field: none = TRUE is the returned None, pop tells
\* whether queue.pop(0) ran
get_next_field(include_gaps, queue, loc, binary_size) ==
  LET NoField == UnknownField(0, NoStart) IN
  IF loc >= binary_size
    THEN [none |-> TRUE, field |-> NoField, pop |-> FALSE]
  ELSE IF Len(queue) = 0
    THEN IF include_gaps
           THEN [none |-> FALSE, field |-> UnknownField(binary_size - loc, loc),
                 pop |-> FALSE]
           ELSE [none |-> TRUE, field |-> NoField, pop |-> FALSE]
  ELSE IF queue[1].start # NoStart /\ queue[1].start > loc /\ include_gaps
    THEN [none |-> FALSE, field |-> UnknownField(queue[1].start - loc, loc),
          pop |-> FALSE]
  ELSE [none |-> FALSE, field |-> queue[1], pop |-> TRUE]


(***************************************************************************)
(* The state.                                                              *)
(*   data, endianness  the root BinaryFile: its bytes and byte order       *)
(*   fields, include_gaps, preprocess, vars0                               *)
(*                     the top-level Reader: fields, opts.include_gaps,    *)
(*                     preprocess and vars                                 *)
(*   stack             the active read_binary/__consume_struct calls,      *)
(*                     outermost first; a frame holds the (sub-)Reader's   *)
(*                     fields, preprocess and vars, the binary it reads,   *)
(*                     and the locals of __consume_struct                  *)
(*   pc                "idle" before the first call, "running" inside      *)
(*                     read_binary, "done" once it returned, "failed" once *)
(*                     it raised                                           *)
(*   result            the list the last completed read_binary returned    *)
(*   reads             number of read_binary calls made so far             *)
(*   last              observation of the last step taken (which operation *)
(*                     ran, on which descriptor, from and to which cursor) *)
(*   outcomes          observation: the outcome of every read_binary call  *)
(*                     that ended so far (returned list, or failure)       *)
(*   lib               a direct call of a constructor of format.py or of   *)
(*                     Binary.get_cstring, and its progress (LibSpec)      *)
(***************************************************************************)
VARIABLES data, endianness, fields, include_gaps, preprocess, vars0,
          stack, pc, result, reads, last, outcomes, lib

vars == <<data, endianness, fields, include_gaps, preprocess, vars0,
          stack, pc, result, reads, last, outcomes, lib>>

\* what no step of a read changes: the binary, the Reader's options and
\* ambient preprocessor
env == <<data, endianness, include_gaps, preprocess, lib>>

\* A Python list of descriptors, by content and identity: caller tells
\* whether the object is the very list the caller stored in the top-level
\* Reader (Reader.fields), as opposed to a copy of it.
ListObj(items, caller) == [items |-> items, caller |-> caller]

\* a copy that is no copy: the same object is returned
same_object(l) == l

\* copy.deepcopy of a list of descriptors: same content, a new object
deepcopy(l) == [items |-> l.items, caller |-> FALSE]

NoField == UnknownField(0, NoStart)

Top == stack[Len(stack)]

SetTop(fr) == [stack EXCEPT ![Len(stack)] = fr]

\* a sub-Reader that shares the scope of the Reader that creates it
ReaderSharingVars(reader_fields, reader_preprocess) ==
  [fields |-> reader_fields, pre |-> reader_preprocess, vars |-> Top.vars]

\* Reader.__init__ as called for a sub-Reader (reader.py line 132): the
\* options are shared, self.vars = {}
Reader(reader_fields, reader_preprocess) ==
  [fields |-> reader_fields, pre |-> reader_preprocess, vars |-> EmptyVars]

\* read_binary's prologue and the first lines of __consume_struct: the
\* frame of one read_binary call of `reader` (whose fields are a ListObj) on
\* the binary `bin`. The queue is the deepcopy (line 80) of the deepcopy
\* (line 69) of reader.fields; shared tells whether the queue is still the
\* caller's own list object. `ranges` records, per completed node,
\* [start_byte, new_loc) and src, the position in reader.fields of the
\* descriptor the node was resolved from (0 for a synthesized gap).
NewFrame(reader, bin, size) ==
  LET queued_fields == deepcopy(deepcopy(reader.fields)) IN
  [fields |-> reader.fields.items, pre |-> reader.pre, vars |-> reader.vars,
   bin |-> bin, limit |-> size,
   queue |-> queued_fields.items, shared |-> queued_fields.caller,
   cur_loc |-> 0, completed |-> <<>>,
   ranges |-> <<>>, field |-> NoField, start_byte |-> 0]

\* queue.pop(0) of __get_next_field seen from the caller's list: it loses
\* its head when the queue of the top-level call is that very list
AfterPop(fr, popped) ==
  IF popped /\ fr.shared /\ Len(stack) = 1 /\ fields # <<>>
    THEN Tail(fields) ELSE fields

NextField == get_next_field(include_gaps, Top.queue, Top.cur_loc, Top.limit)

\* start_byte of __consume_field
StartByte(f, cur_loc) == IF f.start # NoStart THEN f.start ELSE cur_loc

\* The loop of __consume_struct appends one node per iteration; a loop that
\* never exits is followed only up to this many nodes (a loop that exits
\* appends at most one gap per descriptor and one trailing gap).
NodeCap(fr) == 2 * Len(fr.fields) + 3

\* what the last step did: the operation, the depth of the frame it ran in,
\* the descriptor, the cursor before, start_byte, new_loc, and n: the number
\* of bytes get_bytes returned ("unknown", "int") or the block's resolved
\* length ("nested")
Observe(op, f, cur, start, new, n) ==
  [op |-> op, depth |-> Len(stack), field |-> f, cur_loc |-> cur,
   start_byte |-> start, new_loc |-> new, n |-> n]

\* The tail of __consume_field and of the loop body: bind the name, build
\* the FieldData, advance the cursor, append to completed_fields
Completed(fr, f, popped, start_byte, new_loc, val) ==
  [fr EXCEPT !.queue = IF popped THEN Tail(fr.queue) ELSE fr.queue,
             !.cur_loc = new_loc,
             !.vars = Bind(fr.vars, f.name, val),
             !.completed = Append(fr.completed,
                 FieldData(get_label(f, start_byte), get_type(f), start_byte, val)),
             !.ranges = Append(fr.ranges,
                 [start |-> start_byte, stop |-> new_loc,
                  src |-> IF popped THEN Len(fr.fields) - Len(fr.queue) + 1
                          ELSE IF f.kind = "nested"
                            THEN Len(fr.fields) - Len(fr.queue)
                          ELSE 0]),
             !.field = NoField, !.start_byte = 0]

\* Reader.read_binary called on the top-level Reader
ReadBinary ==
  /\ pc \in {"idle", "done", "failed"}
  /\ reads < MaxReads
  /\ stack' = <<NewFrame([fields |-> ListObj(fields, TRUE), pre |-> preprocess,
                          vars |-> vars0],
                         <<>>, GetSize(data, <<>>))>>
  /\ pc' = "running"
  /\ result' = <<>>
  /\ reads' = reads + 1
  /\ last' = Observe("read_binary", NoField, 0, 0, 0, 0)
  /\ UNCHANGED <<env, fields, vars0, outcomes>>

\* one loop iteration: __get_next_field, then __consume_field case "unknown"
ConsumeUnknown ==
  /\ pc = "running"
  /\ ~NextField.none
  /\ NextField.field.kind = "unknown"
  /\ Len(Top.completed) < NodeCap(Top)
  /\ LET f == NextField.field
         start_byte == StartByte(f, Top.cur_loc)
         preprocessor == compose(Top.pre, f.pre)
         val == GetBytes(data, Top.bin, start_byte, f.length.i, preprocessor)
         new_loc == start_byte + Len(val)
     IN /\ stack' = SetTop(Completed(Top, f, NextField.pop, start_byte, new_loc,
                                     BytesVal(val)))
        /\ last' = Observe("unknown", f, Top.cur_loc, start_byte, new_loc, Len(val))
  /\ fields' = AfterPop(Top, NextField.pop)
  /\ UNCHANGED <<env, vars0, pc, result, reads, outcomes>>

\* one loop iteration: __get_next_field, then __consume_field cases "u8".."i64"
ConsumeInt ==
  /\ pc = "running"
  /\ ~NextField.none
  /\ NextField.field.kind = "int"
  /\ Len(Top.completed) < NodeCap(Top)
  /\ LET f == NextField.field
         start_byte == StartByte(f, Top.cur_loc)
         preprocessor == compose(Top.pre, f.pre)
         nbytes == f.bits \div 8
         raw == GetBytes(data, Top.bin, start_byte, nbytes, preprocessor)
         val == get_int(data, endianness, Top.bin, start_byte, nbytes,
                        f.signed, preprocessor)
         new_loc == start_byte + nbytes
     IN /\ stack' = SetTop(Completed(Top, f, NextField.pop, start_byte, new_loc,
                                     IntVal(val)))
        /\ last' = Observe("int", f, Top.cur_loc, start_byte, new_loc, Len(raw))
  /\ fields' = AfterPop(Top, NextField.pop)
  /\ UNCHANGED <<env, vars0, pc, result, reads, outcomes>>

\* one loop iteration: __get_next_field, then __consume_field `case _`
\* (a StructField child): val stays None and new_loc stays start_byte
ConsumeOther ==
  /\ pc = "running"
  /\ ~NextField.none
  /\ NextField.field.kind = "struct"
  /\ Len(Top.completed) < NodeCap(Top)
  /\ LET f == NextField.field
         start_byte == StartByte(f, Top.cur_loc)
         new_loc == start_byte
     IN /\ stack' = SetTop(Completed(Top, f, NextField.pop, start_byte, new_loc,
                                     NoneVal))
        /\ last' = Observe("other", f, Top.cur_loc, start_byte, new_loc, 0)
  /\ fields' = AfterPop(Top, NextField.pop)
  /\ UNCHANGED <<env, vars0, pc, result, reads, outcomes>>

\* __consume_field case "nested" up to the call sub_reader.read_binary:
\* get_length succeeded, the sub-Reader and the BinaryBlock are built and
\* the sub-Reader's read_binary starts
EnterNested ==
  /\ pc = "running"
  /\ ~NextField.none
  /\ NextField.field.kind = "nested"
  /\ Len(Top.completed) < NodeCap(Top)
  /\ get_length(NextField.field, Top.vars).ok
  /\ LET f == NextField.field
         start_byte == StartByte(f, Top.cur_loc)
         preprocessor == compose(Top.pre, f.pre)
         sub_reader == Reader(ListObj(f.sub, Top.shared), preprocessor)
         bin_block == BinaryBlock(Top.bin, start_byte, get_length(f, Top.vars).n)
         caller == [Top EXCEPT !.queue = Tail(Top.queue), !.field = f,
                               !.start_byte = start_byte]
     IN /\ stack' = Append(SetTop(caller),
                           NewFrame(sub_reader, bin_block, GetSize(data, bin_block)))
        /\ last' = Observe("enter", f, Top.cur_loc, start_byte, start_byte, 0)
  /\ fields' = AfterPop(Top, NextField.pop)
  /\ UNCHANGED <<env, vars0, pc, result, reads, outcomes>>

\* __consume_field case "nested" when get_length raises (KeyError for an
\* unbound name, ValueError for a non-int value or a missing length): the
\* exception is caught nowhere, so every active call is unwound and the
\* top-level read_binary raises; the top-level Reader keeps its vars
NestedLengthError ==
  /\ pc = "running"
  /\ ~NextField.none
  /\ NextField.field.kind = "nested"
  /\ Len(Top.completed) < NodeCap(Top)
  /\ ~get_length(NextField.field, Top.vars).ok
  /\ pc' = "failed"
  /\ vars0' = stack[1].vars
  /\ stack' = <<>>
  /\ result' = <<>>
  /\ last' = Observe("raise", NextField.field, Top.cur_loc,
                     StartByte(NextField.field, Top.cur_loc), Top.cur_loc, 0)
  /\ outcomes' = Append(outcomes, [pc |-> "failed", result |-> <<>>])
  /\ fields' = AfterPop(Top, NextField.pop)
  /\ UNCHANGED <<env, reads>>

\* the sub-Reader's read_binary returns res.val; the caller's
\* __consume_field finishes the "nested" case (new_loc is still start_byte)
ReturnNested ==
  /\ pc = "running"
  /\ NextField.none
  /\ Len(stack) > 1
  /\ LET caller == stack[Len(stack) - 1]
         f == caller.field
         start_byte == caller.start_byte
         val == ListVal(Top.completed)
         new_loc == start_byte
     IN /\ stack' = [SubSeq(stack, 1, Len(stack) - 1) EXCEPT ![Len(stack) - 1] =
                       Completed(caller, f, FALSE, start_byte, new_loc, val)]
        /\ last' = [Observe("nested", f, caller.cur_loc, start_byte, new_loc,
                            Top.limit)
                      EXCEPT !.depth = Len(stack) - 1]
  /\ UNCHANGED <<env, fields, vars0, pc, result, reads, outcomes>>

\* the top-level read_binary returns res.val
ReturnTop ==
  /\ pc = "running"
  /\ NextField.none
  /\ Len(stack) = 1
  /\ pc' = "done"
  /\ result' = Top.completed
  /\ vars0' = Top.vars
  /\ stack' = <<>>
  /\ last' = Observe("return", NoField, Top.cur_loc, 0, Top.cur_loc, 0)
  /\ outcomes' = Append(outcomes, [pc |-> "done", result |-> Top.completed])
  /\ UNCHANGED <<env, fields, reads>>

Next ==
  \/ ReadBinary
  \/ ConsumeUnknown
  \/ ConsumeInt
  \/ ConsumeOther
  \/ EnterNested
  \/ NestedLengthError
  \/ ReturnNested
  \/ ReturnTop

(***************************************************************************)
(* The inputs: a bounded family of binaries and schemas, and the concrete  *)
(* scenarios of the specification.                                         *)
(***************************************************************************)
\* byte values of the family's binaries: 1 is a small length, 255 is -1 as
\* an i8 and a length far past the end of the binary as a u8
ByteVals == {1, 255}

RECURSIVE SeqsOfLen(_, _)
SeqsOfLen(S, n) ==
  IF n = 0 THEN {<<>>}
  ELSE {Append(s, x) : s \in SeqsOfLen(S, n - 1), x \in S}

SeqsUpTo(S, n) == UNION {SeqsOfLen(S, k) : k \in 0..n}

Binaries == SeqsUpTo(ByteVals, MaxSize)

\* explicit starts: unspecified, at the beginning, or one byte in (ahead of
\* the cursor for a first descriptor, behind it after a 16-bit one)
Starts == {NoStart, 0, 1}

IntFields ==
  {IntField(b, s, "n", st, NoFunc) : b \in {8, 16}, s \in BOOLEAN, st \in Starts}

UnknownFields == {UnknownField(l, st) : l \in {1, 2}, st \in Starts}

\* the children of the family's nested blocks
SubFieldLists ==
  { <<>>,
    <<UnknownField(2, NoStart)>>,
    <<IntField(8, FALSE, "n", NoStart, NoFunc)>>,
    <<NestedBlockField(NoStart, LenStr("n"), NoName, <<>>, NoFunc)>> }

NestedFields ==
  {NestedBlockField(st, l, nm, sub, NoFunc) :
     st \in {NoStart, 0}, l \in {LenInt(1), LenInt(3), LenStr("n")},
     nm \in {NoName, "n"}, sub \in SubFieldLists}
  \cup {NestedBlockField(NoStart, LenNone, NoName, <<>>, NoFunc)}

StructFields ==
  {StructField(NoStart, LenNone, nm, <<IntField(8, FALSE, NoName, NoStart, NoFunc)>>,
               NoFunc) : nm \in {NoName, "n"}}

Fields == IntFields \cup UnknownFields \cup NestedFields \cup StructFields

Schemas == SeqsUpTo(Fields, 2)

\* spec.md section 8: the by-name length scenario and the gap scenarios
ScenarioLen ==
  [data |-> <<1, 0, 0, 0, 5, 0, 0, 0, 170, 187, 204, 221, 238>>,
   fields |-> <<IntField(32, FALSE, "a", 0, NoFunc),
                IntField(32, FALSE, "len", 4, NoFunc),
                NestedBlockField(8, LenStr("len"), NoName,
                                 <<UnknownField(5, NoStart)>>, NoFunc)>>]

ScenarioGap ==
  [data |-> <<10, 11, 12, 13, 14, 15, 16, 17, 18, 19>>,
   fields |-> <<IntField(8, FALSE, "x", 2, NoFunc)>>]

Scenarios == {ScenarioLen, ScenarioGap}

\* the transforms of the family: none, and two that do not commute
Funcs == {NoFunc, <<"flip">>, <<"inc">>}

\* schemas with transforms on two levels of nested blocks and on the field
TransformSchemas ==
  { << NestedBlockField(NoStart, LenInt(2), NoName,
         << NestedBlockField(NoStart, LenInt(2), NoName,
              << IntField(8, FALSE, NoName, NoStart, f3),
                 UnknownField(1, NoStart) >>, f2) >>, f1) >> :
      f1 \in Funcs, f2 \in Funcs, f3 \in Funcs }
  \cup { << IntField(16, FALSE, NoName, NoStart, f) >> : f \in Funcs }

\* no direct library call is in progress
LibIdle ==
  [op |-> "none", bits |-> 0, signed |-> FALSE, length |-> LenNone,
   made |-> UnknownField(0, NoStart), raised |-> FALSE, printed |-> FALSE,
   typ |-> "", bin |-> <<>>, loc |-> 0, cur_loc |-> 0, buf |-> <<>>,
   returned |-> FALSE]

Init ==
  /\ \/ /\ data \in Binaries
        /\ endianness = "little"
        /\ fields \in Schemas
        /\ preprocess = NoFunc
     \/ \E sc \in Scenarios :
          /\ data = sc.data
          /\ endianness \in {"little", "big"}
          /\ fields = sc.fields
          /\ preprocess = NoFunc
     \/ /\ data = <<1, 255>>
        /\ endianness = "little"
        /\ fields \in TransformSchemas
        /\ preprocess \in Funcs
  /\ include_gaps \in BOOLEAN
  /\ vars0 = EmptyVars
  /\ stack = <<>>
  /\ pc = "idle"
  /\ result = <<>>
  /\ reads = 0
  /\ last = [op |-> "init", depth |-> 0, field |-> NoField, cur_loc |-> 0,
             start_byte |-> 0, new_loc |-> 0, n |-> 0]
  /\ outcomes = <<>>
  /\ lib = LibIdle

Spec == Init /\ [][Next]_vars


(***************************************************************************)
(* The properties.                                                         *)
(***************************************************************************)
\* index in fr.completed of the last node labelled with the name n, or 0
LastNamed(fr, n) ==
  LET S == {i \in 1..Len(fr.completed) :
              fr.completed[i].name.named /\ fr.completed[i].name.name = n}
  IN IF S = {} THEN 0 ELSE CHOOSE i \in S : \A j \in S : j <= i

IsScenarioLen ==
  data = ScenarioLen.data /\ fields = ScenarioLen.fields /\ endianness = "little"

IsScenarioGap == data = ScenarioGap.data /\ fields = ScenarioGap.fields

\* a read of the node kinds that the struct loop appends
NodeOps == {"unknown", "int", "other", "nested"}

\* C1: between any two iterations of the struct loop the scope binds every
\* named sibling resolved so far to its value (the last one resolved under
\* that name), so the binding exists before the next sibling is resolved; a
\* nested block entered with a by-name length reads the BinaryBlock of the
\* current binary at [start_byte, start_byte + that value); and the scenario
\* 01 00 00 00 05 00 00 00 AA BB CC DD EE returns a = 1, len = 5 and a nested
\* block whose single Unknown child holds AA BB CC DD EE.
C1_BoundBeforeNextSibling ==
  /\ \A k \in 1..Len(stack) : \A i \in 1..Len(stack[k].completed) :
       LET nd == stack[k].completed[i] IN
       nd.name.named =>
         /\ nd.name.name \in DOMAIN stack[k].vars
         /\ stack[k].vars[nd.name.name] =
              stack[k].completed[LastNamed(stack[k], nd.name.name)].val
  /\ \A k \in 1..(Len(stack) - 1) :
       LET fr == stack[k]
           f == fr.field
           i == LastNamed(fr, f.length.s)
       IN f.length.k = "str" =>
            /\ i # 0
            /\ fr.completed[i].val.t = "int"
            /\ stack[k + 1].bin =
                 Append(fr.bin, [offset |-> StartByte(f, fr.cur_loc),
                                 length |-> fr.completed[i].val.i])
            /\ stack[k + 1].limit = fr.completed[i].val.i
  /\ IsScenarioLen => pc # "failed"
  /\ (IsScenarioLen /\ pc = "done") =>
       /\ Len(result) >= 3
       /\ result[1].name.name = "a" /\ result[1].val = IntVal(1)
       /\ result[2].name.name = "len" /\ result[2].val = IntVal(5)
       /\ result[3].type = "nested" /\ result[3].location = 8
       /\ result[3].val.t = "list"
       /\ Len(result[3].val.l) = 1
       /\ result[3].val.l[1].type = "unknown"
       /\ result[3].val.l[1].val = BytesVal(<<170, 187, 204, 221, 238>>)

\* the scenario of C1 has returned
C1_Witness ==
  /\ IsScenarioLen /\ pc = "done" /\ ~include_gaps
  /\ Len(result) = 3
  /\ result[3].val.l[1].val.b = <<170, 187, 204, 221, 238>>

\* the half-open range [r.start, r.stop) as a set of byte offsets
BytesOf(r) == r.start .. (r.stop - 1)

\* C2: with gap-filling, when the loop of a struct bounded by L exits, the
\* ranges [start_byte, new_loc) of its sibling nodes are pairwise disjoint
\* and their union is exactly [0, L).
C2_GapsPartition ==
  (include_gaps /\ pc = "running" /\ NextField.none) =>
    LET rs == Top.ranges IN
    /\ \A i, j \in 1..Len(rs) : i < j => BytesOf(rs[i]) \cap BytesOf(rs[j]) = {}
    /\ UNION {BytesOf(rs[i]) : i \in 1..Len(rs)} = 0 .. (Top.limit - 1)

RECURSIVE SumWidths(_)
SumWidths(rs) ==
  IF rs = <<>> THEN 0
  ELSE (Head(rs).stop - Head(rs).start) + SumWidths(Tail(rs))

\* C3: without gap-filling, in every struct bounded by L the bytes consumed
\* by the resolved children sum to at most L, and no child covers a byte at
\* or beyond L.
C3_WithinBound ==
  ~include_gaps =>
    \A k \in 1..Len(stack) :
      LET rs == stack[k].ranges
          L == Max(stack[k].limit, 0)
      IN /\ SumWidths(rs) <= L
         /\ \A i \in 1..Len(rs) : rs[i].stop <= L

\* C4: read_binary terminates: every iteration of the struct loop dequeues
\* a descriptor or moves the cursor. (The next iteration is a function of
\* the queue, the cursor, the bound and the binary, so an iteration that
\* leaves queue and cursor as they were repeats for ever.)
C4_EveryIterationProgresses ==
  [][(pc = "running" /\ pc' = "running" /\ Len(stack') = Len(stack)) =>
       (Top'.queue # Top.queue \/ Top'.cur_loc # Top.cur_loc)]_vars

\* C5: resolving a descriptor never moves the cursor of its scope backward.
C5_CursorMonotone ==
  last.op \in NodeOps => last.new_loc >= last.cur_loc

\* C6: after a nested block is resolved the cursor of the enclosing scope
\* is start + length.
C6_CursorAfterNested ==
  last.op = "nested" => last.new_loc = last.start_byte + last.n

\* the names of the nodes completed so far in frame fr
NamesCompleted(fr) ==
  {fr.completed[i].name.name :
     i \in {j \in 1..Len(fr.completed) : fr.completed[j].name.named}}

\* the struct loop is about to resolve a nested block whose length is a name
AtNamedLength ==
  /\ pc = "running"
  /\ ~NextField.none
  /\ NextField.field.kind = "nested"
  /\ NextField.field.length.k = "str"

\* C7: a by-name length is resolved only against the scope in which the
\* nested block is a sibling: when no sibling resolved before it in this
\* scope carries the name, the read fails, wherever else the name is bound;
\* a block that was entered took its length from such a sibling; and the
\* scope of a nested block's children starts empty and only ever holds the
\* names of those children.
C7_OwnScopeOnly ==
  /\ [][(AtNamedLength /\ LastNamed(Top, NextField.field.length.s) = 0) =>
          pc' = "failed"]_vars
  /\ [](\A k \in 1..(Len(stack) - 1) :
          stack[k].field.length.k = "str" =>
            LastNamed(stack[k], stack[k].field.length.s) # 0)
  /\ [](last.op = "enter" => Top.vars = EmptyVars)
  /\ [](\A k \in 2..Len(stack) :
          DOMAIN stack[k].vars \subseteq NamesCompleted(stack[k]))

\* a read failed inside a nested block on a name that only the top-level
\* (ancestor) scope binds
C7_Witness ==
  /\ pc = "failed" /\ last.op = "raise" /\ last.depth = 2
  /\ last.field.length.k = "str"
  /\ last.field.length.s \in DOMAIN vars0
  /\ vars0[last.field.length.s].t = "int"

\* C8: when the name of a by-name length is unbound in the current scope,
\* or bound to a non-integer, the step raises: the whole read_binary call
\* is unwound and fails, and a failed call has returned no result.
C8_UnresolvedLengthAborts ==
  /\ [][(AtNamedLength /\
          (NextField.field.length.s \notin DOMAIN Top.vars
             \/ Top.vars[NextField.field.length.s].t # "int")) =>
          (pc' = "failed" /\ stack' = <<>> /\ result' = <<>>)]_vars
  /\ [](pc = "failed" => (stack = <<>> /\ result = <<>>))

\* a read failed at the top level on a name bound to the result list of a
\* named nested block
C8_Witness ==
  /\ pc = "failed" /\ last.op = "raise" /\ last.depth = 1
  /\ last.field.length.k = "str"
  /\ last.field.length.s \in DOMAIN vars0
  /\ vars0[last.field.length.s].t = "list"

\* C9: an integer is decoded only from a read that returned all of its
\* bits/8 bytes (a short read fails instead of yielding a value).
C9_NoShortDecode ==
  last.op = "int" => last.n = last.field.bits \div 8

\* C10: a read of an Unknown field through a BinaryBlock of offset o and
\* length n returns the underlying bytes of [o + start, o + start + length)
\* that lie in [o, o + n).
C10_ViewClamped ==
  (last.op = "unknown" /\ last.depth >= 2 /\ pc = "running") =>
    LET fr == stack[last.depth]
        blk == fr.bin[Len(fr.bin)]
        underlying == SubSeq(fr.bin, 1, Len(fr.bin) - 1)
        hi == Min(last.start_byte + last.field.length.i, blk.length)
        expected ==
          IF hi <= last.start_byte THEN <<>>
          ELSE GetBytes(data, underlying, blk.offset + last.start_byte,
                        hi - last.start_byte, compose(fr.pre, last.field.pre))
    IN fr.completed[Len(fr.completed)].val.b = expected


\* C11: all read_binary calls made on the one Reader over the unchanged
\* binary end alike: with equal result trees, or all with a failure.
C11_Idempotent ==
  \A i, j \in 1..Len(outcomes) : outcomes[i] = outcomes[j]

\* two reads returned, the second one started with the first one's bindings
\* and resolved a nested block whose length is a name
C11_Witness ==
  /\ Len(outcomes) = 2 /\ outcomes[2].pc = "done"
  /\ DOMAIN vars0 # {}
  /\ \E i \in 1..Len(fields) :
       /\ fields[i].kind = "nested" /\ fields[i].length.k = "str"
       /\ i <= Len(outcomes[2].result)

\* C12: no step of any read changes the caller's descriptor sequence
\* (Reader.fields with the subfields nested in it), whether the read returns
\* or fails; every queue that is dequeued is a copy, not the caller's list.
C12_FieldsUntouched ==
  /\ [][fields' = fields]_vars
  /\ [](\A k \in 1..Len(stack) : ~stack[k].shared)

\* a first read dequeued two descriptors and failed at a nested block with
\* children, and a second read ran on the same Reader
C12_Witness ==
  /\ reads = 2 /\ Len(outcomes) = 2 /\ outcomes[1].pc = "failed"
  /\ Len(fields) = 2
  /\ fields[2].kind = "nested" /\ fields[2].sub # <<>>

\* C13: every read_binary call starts with an empty scope.
C13_FreshScopePerRead ==
  last.op = "read_binary" => Top.vars = EmptyVars


\* the node nd is the result of resolving the descriptor f
NodeOf(nd, f) ==
  /\ nd.type = get_type(f)
  /\ nd.name.named = (f.name # NoName)
  /\ nd.name.named => nd.name.name = f.name
  /\ f.start # NoStart => nd.location = f.start

\* C14: without gap-filling the i-th node of every struct is the result of
\* its i-th descriptor (no node is synthesized, before, between or after
\* them), located at the descriptor's explicit start when it has one; and
\* the scenario of size 10 with [u8 "x" at 2] returns the single node x at 2.
C14_NoSynthesizedNodes ==
  /\ ~include_gaps =>
       \A k \in 1..Len(stack) :
         LET fr == stack[k] IN
         /\ Len(fr.completed) <= Len(fr.fields)
         /\ \A i \in 1..Len(fr.completed) :
              /\ fr.ranges[i].src = i
              /\ NodeOf(fr.completed[i], fr.fields[i])
  /\ (~include_gaps /\ pc = "done") =>
       /\ Len(result) <= Len(fields)
       /\ \A i \in 1..Len(result) : NodeOf(result[i], fields[i])
  /\ (IsScenarioGap /\ ~include_gaps /\ pc = "done") =>
       result = << [name |-> [named |-> TRUE, name |-> "x", type |-> "", loc |-> 0],
                    type |-> "u8", location |-> 2, val |-> IntVal(12)] >>

\* the gap scenario has returned without gap-filling
C14_Witness ==
  /\ IsScenarioGap /\ ~include_gaps /\ pc = "done"
  /\ Len(result) = 1 /\ result[1].location = 2


\* positions of the nodes of a frame that come from schema descriptors
SchemaNodes(fr) == {i \in 1..Len(fr.ranges) : fr.ranges[i].src # 0}

\* number of descriptors the frame has dequeued
Dequeued(fr) == Len(fr.fields) - Len(fr.queue)

\* C20: in every struct loop the queue is always the not yet dequeued
\* suffix of the schema (no reordering by start), the nodes that are not
\* synthesized gaps are the results of descriptors 1, 2, ... in that order,
\* each dequeued descriptor giving exactly one node (the block being read
\* gives its node on return); and a loop that finds the cursor at the bound
\* with descriptors still queued ends without a node and without an error.
C20_SchemaOrder ==
  /\ [](\A k \in 1..Len(stack) :
          LET fr == stack[k]
              S == SchemaNodes(fr) IN
          /\ fr.queue = SubSeq(fr.fields, Dequeued(fr) + 1, Len(fr.fields))
          /\ \A i \in S :
               /\ fr.ranges[i].src = Cardinality({j \in S : j <= i})
               /\ NodeOf(fr.completed[i], fr.fields[fr.ranges[i].src])
          /\ Cardinality(S) =
               IF k < Len(stack) THEN Dequeued(fr) - 1 ELSE Dequeued(fr))
  /\ [][(pc = "running" /\ NextField.none /\ Top.queue # <<>>) =>
          /\ pc' # "failed"
          /\ Len(stack) = 1 => (pc' = "done" /\ result' = Top.completed)
          /\ Len(stack) > 1 =>
               /\ Len(stack') = Len(stack) - 1
               /\ Len(stack'[Len(stack')].completed)
                    = Len(stack[Len(stack) - 1].completed) + 1]_vars

\* a top-level loop is at its bound with one descriptor resolved, one
\* still queued
C20_Witness ==
  /\ pc = "running" /\ Len(stack) = 1 /\ NextField.none
  /\ Top.queue # <<>> /\ SchemaNodes(Top) # {}


\* C18: right after a Struct child has been resolved, its node's value is
\* the sequence of its children's nodes.
C18_StructChildRecursed ==
  (last.op = "other" /\ pc = "running") =>
    Top.completed[Len(Top.completed)].val.t = "list"


\* the bytes bs after the Reader's own transform and then the transforms
\* of the nested blocks being read by frames 1..k, outermost first
RECURSIVE ThroughBlocks(_, _)
ThroughBlocks(k, bs) ==
  IF k = 0 THEN ApplyFunc(preprocess, bs)
  ELSE ApplyFunc(stack[k].field.pre, ThroughBlocks(k - 1, bs))

\* C15: the value of a field read inside any number of nested blocks is
\* decoded from its raw bytes transformed by the Reader's transform, then by
\* each enclosing block's transform from the outermost inwards, then by the
\* field's own; an absent transform changes nothing.
C15_TransformOrder ==
  (pc = "running" /\ last.op \in {"int", "unknown"}) =>
    LET f == last.field
        width == IF f.kind = "int" THEN f.bits \div 8 ELSE f.length.i
        raw == GetBytes(data, Top.bin, last.start_byte, width, NoFunc)
        bs == ApplyFunc(f.pre, ThroughBlocks(Len(stack) - 1, raw))
        nd == Top.completed[Len(Top.completed)]
    IN IF f.kind = "int"
         THEN nd.val = IntVal(FromBytes(bs, endianness, f.signed))
         ELSE nd.val = BytesVal(bs)

\* an integer two blocks deep has been read with a transform at each level,
\* in an order that matters
C15_Witness ==
  /\ pc = "running" /\ last.op = "int" /\ Len(stack) = 3
  /\ preprocess = <<"flip">> /\ stack[1].field.pre = <<"inc">>
  /\ stack[2].field.pre = <<"flip">> /\ last.field.pre = <<"inc">>


(***************************************************************************)
(* Direct calls of the library: the descriptor constructors of format.py   *)
(* and Binary.get_cstring of binary.py, each on its own.                   *)
(***************************************************************************)
\* binary.py line 8
STR_BUF_LEN == 1024

\* index of the first zero byte of bs, 0 when there is none (buf.find)
Find0(bs) ==
  LET Z == {i \in 1..Len(bs) : bs[i] = 0}
  IN IF Z = {} THEN 0 ELSE CHOOSE i \in Z : \A j \in Z : i <= j

\* a source of n bytes, all 65 but a zero byte at offset z
SourceWithZero(n, z) == [i \in 1..n |-> IF i - 1 = z THEN 0 ELSE 65]

\* sizes and zero offsets around the multiples of the chunk size
AroundChunks == {k * STR_BUF_LEN + d : k \in 1..MaxChunks, d \in {-1, 0, 1}}

CStringSources ==
  {SourceWithZero(n, z) : n \in AroundChunks, z \in AroundChunks \cup {-1, 0}}
  \cup { <<>>, <<0>>, <<65, 0, 66, 0>> }

\* the file itself, a view of all of it, a view of one chunk at offset 1
CStringBinaries ==
  { <<>>, BinaryBlock(<<>>, 0, Len(data)), BinaryBlock(<<>>, 1, STR_BUF_LEN) }

WidthArgs == {0, 7, 8, 16, 24, 32, 64, 128}

LengthArgs == {LenNone, LenInt(1), LenStr("n")}

reader_vars == <<fields, include_gaps, preprocess, vars0, stack, pc, result,
                 reads, last, outcomes>>

LibInit ==
  /\ data \in CStringSources
  /\ endianness = "little"
  /\ fields = <<>>
  /\ include_gaps = FALSE
  /\ preprocess = NoFunc
  /\ vars0 = EmptyVars
  /\ stack = <<>>
  /\ pc = "idle"
  /\ result = <<>>
  /\ reads = 0
  /\ last = [op |-> "init", depth |-> 0, field |-> NoField, cur_loc |-> 0,
             start_byte |-> 0, new_loc |-> 0, n |-> 0]
  /\ outcomes = <<>>
  /\ lib = LibIdle

\* IntField.__init__: returns normally for every width, after a print for
\* an unsupported one
IntFieldInit ==
  /\ lib = LibIdle
  /\ \E bits \in WidthArgs, signed \in BOOLEAN :
       lib' = [LibIdle EXCEPT !.op = "IntField", !.bits = bits,
                 !.signed = signed,
                 !.made = IntField(bits, signed, NoName, NoStart, NoFunc),
                 !.printed = bits \notin {8, 16, 32, 64},
                 !.raised = FALSE]
  /\ UNCHANGED <<data, endianness, reader_vars>>

\* IntField.get_type on the constructed descriptor
IntFieldGetType ==
  /\ lib.op = "IntField"
  /\ lib' = [lib EXCEPT !.op = "get_type", !.typ = get_type(lib.made)]
  /\ UNCHANGED <<data, endianness, reader_vars>>

\* NestedBlockField.__init__: returns normally for every length, after a
\* print for None
NestedBlockFieldInit ==
  /\ lib = LibIdle
  /\ \E length \in LengthArgs :
       lib' = [LibIdle EXCEPT !.op = "NestedBlockField", !.length = length,
                 !.made = NestedBlockField(NoStart, length, NoName, <<>>, NoFunc),
                 !.printed = (length = LenNone),
                 !.raised = FALSE]
  /\ UNCHANGED <<data, endianness, reader_vars>>

\* NestedBlockField.get_length on the constructed descriptor
NestedGetLength ==
  /\ lib.op = "NestedBlockField"
  /\ \E read_vars \in {EmptyVars, Bind(EmptyVars, "n", IntVal(1))} :
       lib' = [lib EXCEPT !.op = "get_length",
                 !.raised = ~get_length(lib.made, read_vars).ok]
  /\ UNCHANGED <<data, endianness, reader_vars>>

\* Binary.get_cstring(loc) up to its loop: buf = bytearray(), cur_loc = loc
GetCstringCall ==
  /\ lib = LibIdle
  /\ \E bin \in CStringBinaries, loc \in {0, 1, Len(data)} :
       lib' = [LibIdle EXCEPT !.op = "get_cstring", !.bin = bin, !.loc = loc,
                 !.cur_loc = loc]
  /\ UNCHANGED <<data, endianness, reader_vars>>

\* one iteration of the loop of get_cstring
GetCstringChunk ==
  /\ lib.op = "get_cstring"
  /\ ~lib.returned
  /\ LET chunk == GetBytes(data, lib.bin, lib.cur_loc, STR_BUF_LEN, NoFunc)
         buf == lib.buf \o chunk
         end_idx == Find0(buf)
     IN lib' = IF end_idx # 0
                 THEN [lib EXCEPT !.buf = SubSeq(buf, 1, end_idx - 1),
                                  !.returned = TRUE]
               ELSE IF Len(chunk) < STR_BUF_LEN
                 THEN [lib EXCEPT !.buf = buf, !.returned = TRUE]
               ELSE [lib EXCEPT !.buf = buf,
                                !.cur_loc = lib.cur_loc + Len(chunk)]
  /\ UNCHANGED <<data, endianness, reader_vars>>

LibNext ==
  \/ IntFieldInit
  \/ IntFieldGetType
  \/ NestedBlockFieldInit
  \/ NestedGetLength
  \/ GetCstringCall
  \/ GetCstringChunk

LibSpec == LibInit /\ [][LibNext]_vars

\* C16: a call of IntField with a width outside {8, 16, 32, 64} raises.
C16_InvalidWidthRejected ==
  (lib.op = "IntField" /\ lib.bits \notin {8, 16, 32, 64}) => lib.raised

\* C17: a call of NestedBlockField with length None raises.
C17_MissingLengthRejected ==
  (lib.op = "NestedBlockField" /\ lib.length = LenNone) => lib.raised

\* the bytes a binary holds: a file's contents, a view's part of its
\* underlying binary
RECURSIVE Contents(_, _)
Contents(d, bin) ==
  IF bin = <<>> THEN d
  ELSE LET v == bin[Len(bin)]
       IN Slice(Contents(d, SubSeq(bin, 1, Len(bin) - 1)),
                v.offset, v.offset + v.length)

\* the bytes of bs from loc up to the first zero byte, or to the end
UpToZero(bs, loc) ==
  LET rest == Slice(bs, loc, Len(bs))
  IN IF Find0(rest) = 0 THEN rest ELSE SubSeq(rest, 1, Find0(rest) - 1)

\* C19: get_cstring(loc) returns the bytes of the source from loc up to
\* the first zero byte at or after loc, or to the end of the source.
C19_CStringUpToZero ==
  (lib.op = "get_cstring" /\ lib.returned) =>
    lib.buf = UpToZero(Contents(data, lib.bin), lib.loc)

\* the same on a file: there the chunked reading returns the right bytes
\* for every position of the zero byte
CStringOnFile ==
  (lib.op = "get_cstring" /\ lib.returned /\ lib.bin = <<>>) =>
    lib.buf = UpToZero(data, lib.loc)

====
